---- MODULE Spec2Model ----
(***************************************************************************)
(* Earthquake Visualizer: the EarthquakeVisualizer component (feed fetch,  *)
(* filter effect, statistics and list panels) and the EarthquakeMap        *)
(* component (Leaflet bootstrap, map initialisation, marker effect).       *)
(*                                                                         *)
(* Units: magnitudes are integers in hundredths (6.99 is 699), times are   *)
(* integer milliseconds, coordinates are integer degrees.                  *)
(* One action is one browser event (a click, a network or script callback) *)
(* together with the React 18 render/effect passes it triggers, run until  *)
(* no state update is pending (state updates of one callback are batched;  *)
(* effects of a child run before those of its parent).                     *)
(***************************************************************************)
EXTENDS Integers, Sequences, FiniteSets, TLC

VARIABLES
    earthquakes,          \* useState<Earthquake[]>([])
    filteredEarthquakes,  \* useState<Earthquake[]>([])
    loading,              \* useState(true)
    error,                \* useState<string | null>(null)
    lastUpdated,          \* useState<Date | null>(null); 0 stands for null
    magnitudeFilter,      \* useState([0]); the single slider value, hundredths
    timeFilter,           \* useState("all")
    showFilters,          \* useState(false)
    filterNow,            \* the local `now` of the last filter computation
    significantEarthquakes, \* const significantEarthquakes of the last render
    inflight,             \* number of fetch() promises not yet settled
    lastOutcome,          \* how the most recent fetch settled ("none" while pending)
    clock,                \* Date.now()
    crashed,              \* an exception escaped a render or an effect
    mapModule,            \* which file "./earthquake-map" resolves to
    chunkLoaded,          \* the dynamic import of the map module has resolved
    mapMounted,           \* an EarthquakeMap instance is mounted
    leafletLoaded,        \* useState(false)
    mapError,             \* useState<string | null>(null)
    mapInstance,          \* mapInstanceRef.current
    markersRef,           \* markersRef.current
    markers,              \* the layers of the layer group markersRef points to
    windowL,              \* window.L is defined
    scriptPending,        \* the mounted instance's <script> has not fired yet
    orphanScript,         \* number of <script>s of unmounted instances that have not fired yet
    reconciledOn          \* history: what the latest clearLayers/addLayer pass ran on

vars == <<earthquakes, filteredEarthquakes, loading, error, lastUpdated,
          magnitudeFilter, timeFilter, showFilters, filterNow,
          significantEarthquakes, inflight, lastOutcome, clock, crashed, mapModule, chunkLoaded, mapMounted,
          leafletLoaded, mapError, mapInstance, markersRef, markers, windowL,
          scriptPending, orphanScript, reconciledOn>>

----------------------------------------------------------------------------
(* Values *)

Null == "null"
\* `undefined` held in an array-typed state cell (data.features of a body
\* that has no `features` key)
Undefined == <<[undefined |-> TRUE]>>
\* JSON null in properties.mag
MagNull == -100000
\* a coordinate that is missing from geometry.coordinates (undefined, NaN
\* once converted to a number)
NaN == -99999

FeedErrorMessage == "Failed to load earthquake data. Please try again later."
MapLoadErrorMessage == "Failed to load map library"
MapInitErrorMessage == "Failed to initialize map"
MapMarkerErrorMessage == "Error adding earthquake markers"

\* the two files in the repository that define EarthquakeMap
MapModules == {"part_001", "components"}

\* Start of the modelled time line (epoch milliseconds)
T0 == 100000000
\* Number of one-millisecond clock ticks that are modelled
MaxTicks == 1
\* Most <script> elements of unmounted instances pending at a time: a feed
\* failure that would leave one more is not drawn
MaxOrphanScripts == 2

HourMs == 60 * 60 * 1000

\* Slider: min={0} max={8} step={0.5}
SliderMin == 0
SliderMax == 800
SliderStep == 50
SliderValues == {v \in SliderMin..SliderMax : v % SliderStep = 0}
TimeFilterValues == {"all", "1h", "6h", "12h"}

Event(id, mag, time, lat, lng) ==
    [id |-> id, mag |-> mag, time |-> time, lat |-> lat, lng |-> lng]

----------------------------------------------------------------------------
(* JavaScript operators on the modelled values *)

\* ToNumber(null) is 0
JsNum(x) == IF x = MagNull THEN 0 ELSE x
\* x >= t for a number-or-null x and a number t
JsGe(x, t) == JsNum(x) >= t
\* isNaN(x)
JsIsNaN(x) == x = NaN
\* !x for a number-or-undefined x
JsNot(x) == x = 0 \/ x = NaN

Min(a, b) == IF a < b THEN a ELSE b

\* Array.prototype.slice(from, to) with 0-based, end-exclusive indices
Slice(arr, from, to) ==
    SubSeq(arr, from + 1, Min(to, Len(arr)))

----------------------------------------------------------------------------
(* EarthquakeVisualizer: filter effect *)

TimeThreshold(tf) ==
    CASE tf = "1h" -> 60 * 60 * 1000
      [] tf = "6h" -> 6 * 60 * 60 * 1000
      [] tf = "12h" -> 12 * 60 * 60 * 1000
      [] OTHER -> 0

FilterByMagnitude(eqs, m) ==
    LET Keep(eq) == JsGe(eq.mag, m)
    IN IF m > 0 THEN SelectSeq(eqs, Keep) ELSE eqs

\* FilterByTime with an exclusive time bound
FilterByTime_exclusive(eqs, tf, now) ==
    LET timeThreshold == TimeThreshold(tf)
        Keep(eq) == now - eq.time < timeThreshold
    IN IF tf # "all" THEN SelectSeq(eqs, Keep) ELSE eqs

FilterByTime(eqs, tf, now) ==
    LET timeThreshold == TimeThreshold(tf)
        Keep(eq) == now - eq.time <= timeThreshold
    IN IF tf # "all" THEN SelectSeq(eqs, Keep) ELSE eqs

FilterEvents(eqs, m, tf, now) ==
    FilterByTime(FilterByMagnitude(eqs, m), tf, now)

----------------------------------------------------------------------------
(* EarthquakeVisualizer: classification helpers and the significant list *)

getMagnitudeColor(magnitude) ==
    IF JsGe(magnitude, 700) THEN "bg-destructive"
    ELSE IF JsGe(magnitude, 500) THEN "bg-orange-500"
    ELSE IF JsGe(magnitude, 300) THEN "bg-yellow-500"
    ELSE IF JsGe(magnitude, 100) THEN "bg-blue-500"
    ELSE "bg-green-500"

getMagnitudeLabel(magnitude) ==
    IF JsGe(magnitude, 700) THEN "Major"
    ELSE IF JsGe(magnitude, 500) THEN "Moderate"
    ELSE IF JsGe(magnitude, 300) THEN "Light"
    ELSE IF JsGe(magnitude, 100) THEN "Minor"
    ELSE "Micro"

\* SortedInsert that places eq before the elements of equal magnitude
SortedInsert_unstable(sorted, eq) ==
    IF sorted = <<>> THEN <<eq>>
    ELSE LET k == Cardinality({i \in 1..Len(sorted) :
                      JsNum(sorted[i].mag) - JsNum(eq.mag) > 0})
         IN SubSeq(sorted, 1, k) \o <<eq>> \o SubSeq(sorted, k + 1, Len(sorted))

\* Insert eq into a sequence sorted by (a, b) => b.mag - a.mag, after every
\* element the comparator does not order behind it (Array.prototype.sort
\* is stable)
RECURSIVE SortedInsert(_, _)
SortedInsert(sorted, eq) ==
    IF sorted = <<>> THEN <<eq>>
    ELSE IF JsNum(eq.mag) - JsNum(Head(sorted).mag) > 0
         THEN <<eq>> \o sorted
         ELSE <<Head(sorted)>> \o SortedInsert(Tail(sorted), eq)

RECURSIVE SortByMagnitudeDesc(_)
SortByMagnitudeDesc(arr) ==
    IF arr = <<>> THEN <<>>
    ELSE SortedInsert(SortByMagnitudeDesc(SubSeq(arr, 1, Len(arr) - 1)),
                      arr[Len(arr)])

SignificantThreshold == 250
SignificantLimit == 5

\* filteredEarthquakes.filter(...).sort(...).slice(0, 5): .filter returns a
\* new array, which .sort orders in place
ComputeSignificant(filtered) ==
    LET Keep(eq) == JsGe(eq.mag, SignificantThreshold)
    IN Slice(SortByMagnitudeDesc(SelectSeq(filtered, Keep)), 0, SignificantLimit)

----------------------------------------------------------------------------
(* EarthquakeMap: marker effect *)

\* "Skip invalid coordinates": the guard of part_001; the file under
\* components/ has no such guard
SkipsCoordinates(module, lat, lng) ==
    IF module = "part_001"
    THEN JsNot(lat) \/ JsNot(lng) \/ JsIsNaN(lat) \/ JsIsNaN(lng)
    ELSE FALSE

\* MarkerRadius whose "major" bound is exclusive
MarkerRadius_exclusiveMajor(magnitude) ==
    IF JsNum(magnitude) > 700 THEN 15
    ELSE IF JsGe(magnitude, 500) THEN 12
    ELSE IF JsGe(magnitude, 300) THEN 9
    ELSE IF JsGe(magnitude, 100) THEN 7
    ELSE 5

MarkerRadius(magnitude) ==
    IF JsGe(magnitude, 700) THEN 15
    ELSE IF JsGe(magnitude, 500) THEN 12
    ELSE IF JsGe(magnitude, 300) THEN 9
    ELSE IF JsGe(magnitude, 100) THEN 7
    ELSE 5

\* MarkerColor whose "light" tier starts at 2.9
MarkerColor_lightFrom29(magnitude) ==
    IF JsGe(magnitude, 700) THEN "#dc2626"
    ELSE IF JsGe(magnitude, 500) THEN "#f97316"
    ELSE IF JsGe(magnitude, 290) THEN "#eab308"
    ELSE IF JsGe(magnitude, 100) THEN "#3b82f6"
    ELSE "#22c55e"

MarkerColor(magnitude) ==
    IF JsGe(magnitude, 700) THEN "#dc2626"
    ELSE IF JsGe(magnitude, 500) THEN "#f97316"
    ELSE IF JsGe(magnitude, 300) THEN "#eab308"
    ELSE IF JsGe(magnitude, 100) THEN "#3b82f6"
    ELSE "#22c55e"

\* L.circleMarker([lat, lng], ...) of Leaflet 1.9.4 throws "Invalid LatLng
\* object" when a coordinate is NaN
CircleMarkerThrows(lat, lng) == JsIsNaN(lat) \/ JsIsNaN(lng)

\* magnitude.toFixed(1) in the popup template throws a TypeError on null
ToFixedThrows(magnitude) == magnitude = MagNull

CircleMarker(eq) ==
    [position |-> <<eq.lat, eq.lng>>,
     radius |-> MarkerRadius(eq.mag),
     fillColor |-> MarkerColor(eq.mag),
     popup |-> eq.id]

\* earthquakes.forEach(...) from element i on; the result is the layer
\* group's content and whether the callback threw
RECURSIVE AddMarkers(_, _, _, _)
AddMarkers(module, eqs, i, layer) ==
    IF i > Len(eqs) THEN [layer |-> layer, threw |-> FALSE]
    ELSE LET eq == eqs[i]
         IN IF SkipsCoordinates(module, eq.lat, eq.lng)
            THEN AddMarkers(module, eqs, i + 1, layer)
            ELSE IF CircleMarkerThrows(eq.lat, eq.lng) \/ ToFixedThrows(eq.mag)
                 THEN [layer |-> layer, threw |-> TRUE]
                 ELSE AddMarkers(module, eqs, i + 1, Append(layer, CircleMarker(eq)))

\* clearLayers() that leaves the layers in place
ClearLayers_keeps(layer) == layer

\* markersRef.current.clearLayers()
ClearLayers(layer) == <<>>

\* clearLayers() followed by the forEach
Reconcile(module, eqs, layer) ==
    AddMarkers(module, eqs, 1, ClearLayers(layer))

----------------------------------------------------------------------------
(* The component state as one record, so that the passes of one event can  *)
(* be composed                                                              *)

St ==
    [earthquakes |-> earthquakes, filteredEarthquakes |-> filteredEarthquakes,
     loading |-> loading, error |-> error, lastUpdated |-> lastUpdated,
     magnitudeFilter |-> magnitudeFilter, timeFilter |-> timeFilter,
     showFilters |-> showFilters, filterNow |-> filterNow,
     significantEarthquakes |-> significantEarthquakes,
     inflight |-> inflight, lastOutcome |-> lastOutcome, clock |-> clock,
     crashed |-> crashed, mapModule |-> mapModule,
     chunkLoaded |-> chunkLoaded, mapMounted |-> mapMounted,
     leafletLoaded |-> leafletLoaded, mapError |-> mapError,
     mapInstance |-> mapInstance, markersRef |-> markersRef,
     markers |-> markers, windowL |-> windowL,
     scriptPending |-> scriptPending, orphanScript |-> orphanScript,
     reconciledOn |-> reconciledOn]

\* The render that ends every event: the body of EarthquakeVisualizer
\* computes significantEarthquakes from the filtered set and leaves the state
\* cells as they are
Render(s) ==
    IF s.crashed THEN s
    ELSE [s EXCEPT !.significantEarthquakes =
                       ComputeSignificant(s.filteredEarthquakes)]

Assign(s) ==
    /\ earthquakes' = s.earthquakes
    /\ filteredEarthquakes' = s.filteredEarthquakes
    /\ loading' = s.loading
    /\ error' = s.error
    /\ lastUpdated' = s.lastUpdated
    /\ magnitudeFilter' = s.magnitudeFilter
    /\ timeFilter' = s.timeFilter
    /\ showFilters' = s.showFilters
    /\ filterNow' = s.filterNow
    /\ significantEarthquakes' = s.significantEarthquakes
    /\ inflight' = s.inflight
    /\ lastOutcome' = s.lastOutcome
    /\ clock' = s.clock
    /\ crashed' = s.crashed
    /\ mapModule' = s.mapModule
    /\ chunkLoaded' = s.chunkLoaded
    /\ mapMounted' = s.mapMounted
    /\ leafletLoaded' = s.leafletLoaded
    /\ mapError' = s.mapError
    /\ mapInstance' = s.mapInstance
    /\ markersRef' = s.markersRef
    /\ markers' = s.markers
    /\ windowL' = s.windowL
    /\ scriptPending' = s.scriptPending
    /\ orphanScript' = s.orphanScript
    /\ reconciledOn' = s.reconciledOn

\* The state after the event's passes and its final render
Commit(s) == Assign(Render(s))

\* An exception that no try/catch of the repository handles
Crash(s) == [s EXCEPT !.crashed = TRUE]

\* The guards written `mapError` exist only in part_001; the file under
\* components/ has no mapError state
HasMapError(s) == s.mapModule = "part_001" /\ s.mapError # Null

\* Cleanup function of the initialisation effect: map.remove() and
\* mapInstanceRef.current = null; markersRef.current keeps pointing to the
\* layer group of the removed map
InitCleanup(s) ==
    IF s.mapInstance # Null
    THEN [s EXCEPT !.mapInstance = Null,
                   !.markersRef = IF @ = "attached" THEN "detached" ELSE @]
    ELSE s

\* Re-render after setMapError(msg): the error panel replaces the map div;
\* the initialisation effect depends on mapError, so its cleanup runs and
\* its body returns at the guard
AfterMapError(s) ==
    IF s.crashed \/ ~s.mapMounted \/ ~HasMapError(s) THEN s
    ELSE InitCleanup(s)

\* Initialisation effect body; initOk tells whether the Leaflet calls
\* L.map / L.tileLayer / L.layerGroup return or throw
InitEffect(s, initOk) ==
    IF s.crashed \/ ~s.mapMounted THEN s
    ELSE IF ~s.leafletLoaded \/ ~s.windowL \/ HasMapError(s) THEN s
    ELSE IF s.mapInstance # Null THEN s
    ELSE IF initOk
         THEN [s EXCEPT !.mapInstance = "map", !.markersRef = "attached",
                        !.markers = <<>>]
         ELSE IF s.mapModule = "part_001"
              THEN [s EXCEPT !.mapError = MapInitErrorMessage]
              ELSE Crash(s)

\* What the layer group behind markersRef.current is attached to when the
\* marker effect reaches clearLayers(): the live map of a loaded library
\* ("ready"), a map that the cleanup of the initialisation effect has
\* removed ("removed"), or nothing yet ("unready")
LayerStatus(s) ==
    IF s.leafletLoaded /\ s.windowL /\ s.mapInstance # Null
       /\ s.markersRef = "attached"
    THEN "ready"
    ELSE IF s.markersRef = "detached" THEN "removed" ELSE "unready"

MarkerEffect_guardsLayerOnly(s) ==
    IF s.crashed \/ ~s.mapMounted THEN s
    ELSE IF s.markersRef = Null \/ s.loading
            \/ ~s.leafletLoaded \/ ~s.windowL
         THEN s
         ELSE LET r == Reconcile(s.mapModule, s.filteredEarthquakes, s.markers)
                  t == [s EXCEPT !.markers = r.layer,
                                 !.reconciledOn = LayerStatus(s)]
              IN IF ~r.threw THEN t
                 ELSE IF s.mapModule = "part_001"
                      THEN AfterMapError([t EXCEPT !.mapError = MapMarkerErrorMessage])
                      ELSE Crash(t)

\* Marker effect body, followed by the re-render its setMapError causes
MarkerEffect(s) ==
    IF s.crashed \/ ~s.mapMounted THEN s
    ELSE IF s.mapInstance = Null \/ s.markersRef = Null \/ s.loading
            \/ ~s.leafletLoaded \/ ~s.windowL \/ HasMapError(s)
         THEN s
         ELSE LET r == Reconcile(s.mapModule, s.filteredEarthquakes, s.markers)
                  t == [s EXCEPT !.markers = r.layer,
                                 !.reconciledOn = LayerStatus(s)]
              IN IF ~r.threw THEN t
                 ELSE IF s.mapModule = "part_001"
                      THEN AfterMapError([t EXCEPT !.mapError = MapMarkerErrorMessage])
                      ELSE Crash(t)

\* Re-render after setLeafletLoaded(true): the map div is rendered, the
\* initialisation effect and then the marker effect run
AfterLeafletLoaded(s, initOk) ==
    MarkerEffect(AfterMapError(InitEffect(s, initOk)))

\* loadLeaflet(): append a <script> unless window.L exists already
LoadLeaflet(s, initOk) ==
    IF ~s.windowL
    THEN [s EXCEPT !.scriptPending = TRUE]
    ELSE AfterLeafletLoaded([s EXCEPT !.leafletLoaded = TRUE], initOk)

\* A new EarthquakeMap instance is mounted: fresh state and refs, then its
\* mount effects
MapMount(s, initOk) ==
    LoadLeaflet([s EXCEPT !.mapMounted = TRUE, !.leafletLoaded = FALSE,
                          !.mapError = Null, !.mapInstance = Null,
                          !.markersRef = Null, !.markers = <<>>], initOk)

\* The EarthquakeMap instance is unmounted (the error panel replaces it):
\* the cleanup of the initialisation effect runs, the instance's state and
\* refs are discarded, a <script> it appended stays in the document
MapUnmount(s) ==
    IF ~s.mapMounted THEN s
    ELSE [InitCleanup(s) EXCEPT
             !.mapMounted = FALSE, !.leafletLoaded = FALSE,
             !.mapError = Null, !.mapInstance = Null, !.markersRef = Null,
             !.markers = <<>>, !.scriptPending = FALSE,
             !.orphanScript = IF s.scriptPending THEN @ + 1 ELSE @]

----------------------------------------------------------------------------
(* EarthquakeVisualizer: passes *)

\* Filter effect.  On `undefined` the first .filter call throws; without an
\* active filter `undefined` is stored and the next render throws at
\* filteredEarthquakes.filter(...)
FilterEffect(s) ==
    IF s.crashed THEN s
    ELSE IF s.earthquakes = Undefined
         THEN IF s.magnitudeFilter > 0 \/ s.timeFilter # "all"
              THEN Crash(s)
              ELSE Crash([s EXCEPT !.filteredEarthquakes = Undefined])
         ELSE [s EXCEPT
                 !.filteredEarthquakes =
                     FilterEvents(s.earthquakes, s.magnitudeFilter,
                                  s.timeFilter, s.clock),
                 !.filterNow = IF s.timeFilter # "all" THEN s.clock ELSE @]

\* The filter effect and the re-render of EarthquakeMap with the new
\* `earthquakes` prop, whose marker effect runs again
FilterAndProject(s) == MarkerEffect(FilterEffect(s))

\* fetchEarthquakeData up to the await: setLoading(true), setError(null),
\* fetch(...).  When the error panel was shown, EarthquakeMap is mounted
\* again; otherwise its marker effect sees loading = true and returns
BeginFetch(s, initOk) ==
    LET t == [s EXCEPT !.loading = TRUE, !.error = Null,
                       !.inflight = @ + 1, !.lastOutcome = "none"]
    IN IF s.error # Null /\ s.chunkLoaded THEN MapMount(t, initOk)
       ELSE MarkerEffect(t)

\* The outcomes of the awaited fetch and response.json():
\*   ok          2xx, body is a feed document
\*   http        response.ok is false
\*   network     fetch() rejects
\*   unparsable  response.json() rejects
\*   nullbody    body is the JSON value null: data.features throws
\*   nofeatures  body is a JSON object without `features`
FailureOutcomes == {"http", "network", "unparsable", "nullbody"}
Outcomes == {"ok", "nofeatures"} \cup FailureOutcomes

\* try-branch after the awaits: setEarthquakes(data.features),
\* setLastUpdated(new Date()); finally: setLoading(false)
FetchSucceeded(s, features) ==
    LET t == [s EXCEPT !.earthquakes = features, !.lastUpdated = s.clock,
                       !.loading = FALSE, !.inflight = @ - 1]
        \* marker effect of the child: `loading` changed, the prop is the
        \* filtered set of the previous render
        u == IF s.loading THEN MarkerEffect(t) ELSE t
    IN FilterAndProject(u)

\* FetchFailed that also drops the loaded events
FetchFailed_clearsData(s) ==
    MapUnmount([s EXCEPT !.error = FeedErrorMessage, !.loading = FALSE,
                         !.inflight = @ - 1, !.earthquakes = <<>>])

\* catch: setError(...); finally: setLoading(false).  The error panel
\* replaces EarthquakeMap
FetchFailed(s) ==
    MapUnmount([s EXCEPT !.error = FeedErrorMessage, !.loading = FALSE,
                         !.inflight = @ - 1])

SettleFetch(s, outcome, feed) ==
    LET t == [s EXCEPT !.lastOutcome = outcome]
    IN CASE outcome = "ok" -> FetchSucceeded(t, feed)
         [] outcome = "nofeatures" -> FetchSucceeded(t, Undefined)
         [] OTHER -> FetchFailed(t)

----------------------------------------------------------------------------
(* Events of the feed used by the application-level specification *)

eBig == Event(1, 810, T0 - 1000, 10, 20)
eHour == Event(2, 300, T0 - HourMs, 0, 30)
eOld == Event(3, 200, T0 - 13 * HourMs, -5, 40)
eNoMag == Event(4, MagNull, T0 - 1000, 15, 25)
eNoLat == Event(5, 520, T0 - 6 * HourMs, NaN, 50)

Feeds == {<<eBig, eHour, eOld>>, <<eOld>>, <<eBig, eNoMag>>, <<eNoLat, eBig>>}
MagChoices == {0, 250, 500}

\* The bodies a fetch with the given outcome can deliver: only a 2xx feed
\* document carries events
BodiesOf(outcome) == IF outcome = "ok" THEN Feeds ELSE {<<>>}

----------------------------------------------------------------------------
(* Actions *)

\* useEffect(() => { fetchEarthquakeData() }, []) after the first render
\* (the filter effect of the first render stores the empty array again)
MountEffect ==
    /\ lastOutcome = "unmounted"
    /\ Commit(BeginFetch(St, TRUE))

\* lastOutcome is "unmounted" until the mount effects have run
Live == lastOutcome # "unmounted" /\ ~crashed

\* The dynamic import of "./earthquake-map" resolves
ChunkLoaded(initOk) ==
    /\ Live /\ ~chunkLoaded
    /\ LET t == [St EXCEPT !.chunkLoaded = TRUE]
       IN Commit(IF error = Null THEN MapMount(t, initOk) ELSE t)

\* script.onload of the mounted instance
ScriptLoaded(initOk) ==
    /\ Live /\ scriptPending
    /\ Commit(AfterLeafletLoaded(
           [St EXCEPT !.scriptPending = FALSE, !.windowL = TRUE,
                      !.leafletLoaded = TRUE], initOk))

\* script.onerror of the mounted instance
ScriptFailed ==
    /\ Live /\ scriptPending
    /\ LET t == [St EXCEPT !.scriptPending = FALSE]
       IN Commit(IF mapModule = "part_001"
                 THEN AfterMapError([t EXCEPT !.mapError = MapLoadErrorMessage])
                 ELSE t)

\* onload / onerror of one <script> whose instance is unmounted: the state
\* setters are no-ops, the library still defines window.L when it loads;
\* every appended script fires once, the others stay pending
OrphanScriptFired(loaded) ==
    /\ Live /\ orphanScript > 0
    /\ Commit([St EXCEPT !.orphanScript = @ - 1,
                         !.windowL = @ \/ loaded])

\* Refresh without the disabled={loading} guard
Refresh_notDisabled(initOk) ==
    /\ Live
    /\ Commit(BeginFetch(St, initOk))

\* Refresh button: disabled={loading}
Refresh(initOk) ==
    /\ Live /\ ~loading
    /\ Commit(BeginFetch(St, initOk))

\* Try Again button of the error panel
TryAgain(initOk) ==
    /\ Live /\ error # Null
    /\ Commit(BeginFetch(St, initOk))

\* The pending fetch settles
ResolveFetch(outcome, feed) ==
    /\ Live /\ inflight > 0
    /\ (outcome \in FailureOutcomes /\ scriptPending)
           => orphanScript < MaxOrphanScripts
    /\ Commit(SettleFetch(St, outcome, feed))

\* Slider onValueChange (the controls are rendered when showFilters)
SetMagnitudeFilter(v) ==
    /\ Live /\ showFilters
    /\ Commit(FilterAndProject([St EXCEPT !.magnitudeFilter = v]))

\* Select onValueChange
SetTimeFilter(tf) ==
    /\ Live /\ showFilters /\ tf # timeFilter
    /\ Commit(FilterAndProject([St EXCEPT !.timeFilter = tf]))

\* Filters button
ToggleFilters ==
    /\ Live
    /\ Commit([St EXCEPT !.showFilters = ~@])

\* One millisecond passes
Tick ==
    /\ clock < T0 + MaxTicks
    /\ Commit([St EXCEPT !.clock = @ + 1])

Init ==
    /\ earthquakes = <<>>
    /\ filteredEarthquakes = <<>>
    /\ loading = TRUE
    /\ error = Null
    /\ lastUpdated = 0
    /\ magnitudeFilter = 0
    /\ timeFilter = "all"
    /\ showFilters = FALSE
    /\ filterNow = 0
    /\ significantEarthquakes = <<>>
    /\ inflight = 0
    /\ lastOutcome = "unmounted"
    /\ clock = T0
    /\ crashed = FALSE
    /\ mapModule \in MapModules
    /\ chunkLoaded = FALSE
    /\ mapMounted = FALSE
    /\ leafletLoaded = FALSE
    /\ mapError = Null
    /\ mapInstance = Null
    /\ markersRef = Null
    /\ markers = <<>>
    /\ windowL = FALSE
    /\ scriptPending = FALSE
    /\ orphanScript = 0
    /\ reconciledOn = "none"

Next ==
    \/ MountEffect
    \/ \E initOk \in BOOLEAN : ChunkLoaded(initOk)
    \/ \E initOk \in BOOLEAN : ScriptLoaded(initOk)
    \/ ScriptFailed
    \/ \E loaded \in BOOLEAN : OrphanScriptFired(loaded)
    \/ \E initOk \in BOOLEAN : Refresh(initOk)
    \/ \E initOk \in BOOLEAN : TryAgain(initOk)
    \/ \E outcome \in Outcomes :
          \E feed \in BodiesOf(outcome) : ResolveFetch(outcome, feed)
    \/ \E v \in MagChoices : SetMagnitudeFilter(v)
    \/ \E tf \in TimeFilterValues : SetTimeFilter(tf)
    \/ ToggleFilters
    \/ Tick

Spec == Init /\ [][Next]_vars

TypeOK ==
    /\ loading \in BOOLEAN /\ crashed \in BOOLEAN
    /\ error \in {Null, FeedErrorMessage}
    /\ inflight \in 0..1
    /\ magnitudeFilter \in SliderValues
    /\ timeFilter \in TimeFilterValues

----------------------------------------------------------------------------
(* Filter-level specification: the state after a successful fetch of any   *)
(* feed of up to MaxFeedLen events (and of one longer feed), then any       *)
(* sequence of slider and time-window changes over the full control ranges *)

MaxFeedLen == 3

f1 == Event(1, 250, T0 - HourMs, 10, 20)
f2 == Event(2, 250, T0 + 1 - HourMs, 11, 21)
f3 == Event(3, MagNull, T0 - 12 * HourMs, 12, 22)
f4 == Event(4, 810, T0 - 6 * HourMs - 1, 13, 23)
FilterUniverse == {f1, f2, f3, f4}

LongFeed ==
    <<Event(11, 300, T0 - 1000, 1, 1), Event(12, 810, T0 - 2000, 2, 2),
      Event(13, 300, T0 - HourMs, 3, 3), Event(14, 250, T0 - 3000, 4, 4),
      Event(15, 200, T0 - 4000, 5, 5), Event(16, 810, T0 - 2 * HourMs, 6, 6),
      Event(17, 300, T0 - 5000, 7, 7), Event(18, 500, T0 - 7 * HourMs, 8, 8)>>

FilterFeeds ==
    UNION {[1..n -> FilterUniverse] : n \in 0..MaxFeedLen} \cup {LongFeed}

InitFilter ==
    /\ earthquakes \in FilterFeeds
    /\ filteredEarthquakes = earthquakes
    /\ loading = FALSE
    /\ error = Null
    /\ lastUpdated = T0
    /\ magnitudeFilter = 0
    /\ timeFilter = "all"
    /\ showFilters = TRUE
    /\ filterNow = 0
    /\ significantEarthquakes = ComputeSignificant(earthquakes)
    /\ inflight = 0
    /\ lastOutcome = "ok"
    /\ clock = T0
    /\ crashed = FALSE
    /\ mapModule = "part_001"
    /\ chunkLoaded = FALSE
    /\ mapMounted = FALSE
    /\ leafletLoaded = FALSE
    /\ mapError = Null
    /\ mapInstance = Null
    /\ markersRef = Null
    /\ markers = <<>>
    /\ windowL = FALSE
    /\ scriptPending = FALSE
    /\ orphanScript = 0
    /\ reconciledOn = "none"

NextFilter ==
    \/ \E v \in SliderValues : SetMagnitudeFilter(v)
    \/ \E tf \in TimeFilterValues : SetTimeFilter(tf)
    \/ Tick

SpecFilter == InitFilter /\ [][NextFilter]_vars

----------------------------------------------------------------------------
(* C1 *)

\* windowMillis of the time windows, as stated
WindowMillis(tf) ==
    CASE tf = "1h" -> 3600000
      [] tf = "6h" -> 21600000
      [] tf = "12h" -> 43200000

\* Both predicates of the filter contract, for minimum magnitude m, window
\* tf and the instant `now` of the computation
Satisfies(e, m, tf, now) ==
    /\ m = 0 \/ (e.mag # MagNull /\ e.mag >= m)
    /\ tf = "all" \/ now - e.time <= WindowMillis(tf)

\* sub is the subsequence of full at the positions idx, in increasing order
IsSubsequenceAt(sub, full, idx) ==
    /\ Len(sub) = Cardinality(idx)
    /\ \A i \in idx :
          sub[Cardinality({j \in idx : j <= i})] = full[i]

\* C1: the filtered set holds exactly the events of the event set that
\* satisfy (m = 0 or magnitude >= m) and (window = all or now - time <=
\* windowMillis(window)), in feed order, where now is the instant sampled by
\* the computation; the time bound is inclusive and an event without
\* magnitude is dropped whenever m > 0.
C1_FilterExact ==
    ~crashed =>
        IsSubsequenceAt(filteredEarthquakes, earthquakes,
            {i \in 1..Len(earthquakes) :
                Satisfies(earthquakes[i], magnitudeFilter, timeFilter, filterNow)})

\* An event exactly one hour old is kept, one a millisecond older and one
\* without magnitude are dropped
C1_Witness ==
    /\ earthquakes = <<f1, f2, f3>>
    /\ timeFilter = "1h" /\ filterNow = T0 + 1 /\ magnitudeFilter = 250
    /\ filteredEarthquakes = <<f2>>

----------------------------------------------------------------------------
(* What the panels of EarthquakeVisualizer display *)

\* "Total Earthquakes" card: {filteredEarthquakes.length}, rendered
\* unconditionally
TotalCard == Len(filteredEarthquakes)

\* "Significant Events" card: rendered unconditionally
SignificantCard ==
    Cardinality({i \in 1..Len(filteredEarthquakes) :
                    JsGe(filteredEarthquakes[i].mag, SignificantThreshold)})

\* "Recent Significant Events" list: a skeleton while loading, else the
\* entries of significantEarthquakes
ListPanel == IF loading THEN <<>> ELSE significantEarthquakes

\* The map card shows the feed error panel with the Try Again button
ErrorPanelShown == error # Null

----------------------------------------------------------------------------
(* C2 *)

\* C2: at most one feed fetch is in flight, and while one is in flight none
\* of the actions that start a fetch (mount effect, Refresh, Try Again) is
\* enabled.
C2_SingleFetchInFlight ==
    /\ inflight <= 1
    /\ inflight > 0 =>
          /\ ~ENABLED MountEffect
          /\ ~ENABLED (\E initOk \in BOOLEAN : Refresh(initOk))
          /\ ~ENABLED (\E initOk \in BOOLEAN : TryAgain(initOk))

\* A fetch started by Refresh or Try Again after an earlier one completed
C2_Witness ==
    /\ inflight = 1 /\ lastOutcome = "none"
    /\ lastUpdated # 0

----------------------------------------------------------------------------
(* C3 *)

\* C3: a fetch that fails by network failure, non-2xx status or unparsable
\* body sets the error, clears loading and leaves the event set, the
\* filtered set, the filters and the last-successful-fetch timestamp as they
\* were; the event set does not change while the fetch is pending, and the
\* timestamp is written only by a fetch that does not fail.
C3_FailureKeepsData ==
    /\ [][(inflight' < inflight
            /\ lastOutcome' \in {"network", "http", "unparsable"})
          => /\ earthquakes' = earthquakes
             /\ filteredEarthquakes' = filteredEarthquakes
             /\ lastUpdated' = lastUpdated
             /\ magnitudeFilter' = magnitudeFilter
             /\ timeFilter' = timeFilter
             /\ error' # Null
             /\ loading' = FALSE]_vars
    /\ [][(inflight' >= inflight) => earthquakes' = earthquakes]_vars
    /\ [][lastUpdated' # lastUpdated
          => /\ inflight' < inflight
             /\ lastOutcome' \notin {"network", "http", "unparsable"}]_vars

\* A failed refresh after a successful fetch: the events and the timestamp
\* of the earlier fetch are still in the state
C3_Witness ==
    /\ lastOutcome = "network"
    /\ error # Null
    /\ earthquakes = <<eBig, eHour, eOld>>
    /\ lastUpdated # 0

----------------------------------------------------------------------------
(* C4 *)

\* C4: while a feed error is active, the statistics cards and the
\* significant-events list do not display values of an earlier successful
\* fetch.
C4_NoStaleSuccessWithError ==
    (~crashed /\ ErrorPanelShown /\ lastUpdated # 0)
        => TotalCard = 0 /\ SignificantCard = 0 /\ ListPanel = <<>>

----------------------------------------------------------------------------
(* C5 *)

\* C5: whatever the kind of bad response (non-success status, network
\* failure, non-JSON body, malformed JSON body), once the fetch has settled
\* the error state holds the message and no exception has escaped into the
\* filter computation or the rendering.
C5_BadResponseBecomesError ==
    lastOutcome \in {"http", "network", "unparsable", "nullbody", "nofeatures"}
        => error = FeedErrorMessage /\ ~crashed

----------------------------------------------------------------------------
(* C6 *)

\* The map library is loaded, the map and its marker layer exist and no
\* marker-layer error is set
MapReady ==
    /\ mapMounted /\ leafletLoaded /\ windowL
    /\ mapInstance # Null /\ markersRef = "attached"
    /\ mapError = Null

\* No fetch is pending, no feed error is shown, nothing has crashed
Settled == ~loading /\ inflight = 0 /\ error = Null /\ ~crashed

\* The events of the filtered set the marker effect of the loaded map
\* module projects to a descriptor
ProjectedPositions ==
    {i \in 1..Len(filteredEarthquakes) :
        ~SkipsCoordinates(mapModule, filteredEarthquakes[i].lat,
                          filteredEarthquakes[i].lng)}

\* C6: once the map is ready, no fetch is pending and no error is active,
\* the marker layer holds exactly one marker per descriptor of the current
\* filtered set, in descriptor order, and nothing of an earlier filtered set.
C6_MarkersAreFullReplace ==
    (MapReady /\ Settled) =>
        /\ Len(markers) = Cardinality(ProjectedPositions)
        /\ \A i \in ProjectedPositions :
              markers[Cardinality({j \in ProjectedPositions : j <= i})]
                  = CircleMarker(filteredEarthquakes[i])

\* The layer after a filter change shrank the filtered set of a loaded feed
C6_Witness ==
    /\ MapReady /\ Settled
    /\ earthquakes = <<eBig, eHour, eOld>>
    /\ magnitudeFilter = 500
    /\ Len(markers) = 1 /\ markers[1].popup = eBig.id

----------------------------------------------------------------------------
(* C7 *)

IsFiniteCoordinate(x) == x # NaN

FinitePositions ==
    {i \in 1..Len(filteredEarthquakes) :
        /\ IsFiniteCoordinate(filteredEarthquakes[i].lat)
        /\ IsFiniteCoordinate(filteredEarthquakes[i].lng)}

\* C7: on a ready, settled map every filtered event whose latitude and
\* longitude are both finite (0 included) has exactly one marker, at
\* (latitude, longitude), and an event with a non-finite coordinate has
\* none.
C7_MarkerIffFiniteCoordinates ==
    (MapReady /\ Settled) =>
        /\ Len(markers) = Cardinality(FinitePositions)
        /\ \A i \in FinitePositions :
              LET m == markers[Cardinality({j \in FinitePositions : j <= i})]
              IN /\ m.position = <<filteredEarthquakes[i].lat,
                                   filteredEarthquakes[i].lng>>
                 /\ m.popup = filteredEarthquakes[i].id

----------------------------------------------------------------------------
(* Marker-level specification: the map is ready while the first fetch is   *)
(* pending; the fetch succeeds with a feed of one event of any magnitude   *)
(* between MagLow and MagHigh (or without magnitude), or of two events     *)
(* with magnitudes around the tier bounds                                   *)

\* Magnitudes below zero are modelled down to -MaxNegativeMag hundredths
MaxNegativeMag == 100
MagLow == 0 - MaxNegativeMag
MagHigh == 1000
BoundaryMags == {99, 100, 290, 299, 300, 499, 500, 699, 700}

MarkerFeeds ==
    {<<Event(1, mag, T0 - 1000, 10, 20)>> : mag \in (MagLow..MagHigh) \cup {MagNull}}
    \cup {<<Event(1, a, T0 - 1000, 10, 20), Event(2, b, T0 - 2000, -30, 40)>> :
             a \in BoundaryMags, b \in BoundaryMags}

InitMarkers ==
    /\ earthquakes = <<>>
    /\ filteredEarthquakes = <<>>
    /\ loading = TRUE
    /\ error = Null
    /\ lastUpdated = 0
    /\ magnitudeFilter = 0
    /\ timeFilter = "all"
    /\ showFilters = FALSE
    /\ filterNow = 0
    /\ significantEarthquakes = <<>>
    /\ inflight = 1
    /\ lastOutcome = "none"
    /\ clock = T0
    /\ crashed = FALSE
    /\ mapModule \in MapModules
    /\ chunkLoaded = TRUE
    /\ mapMounted = TRUE
    /\ leafletLoaded = TRUE
    /\ mapError = Null
    /\ mapInstance = "map"
    /\ markersRef = "attached"
    /\ markers = <<>>
    /\ windowL = TRUE
    /\ scriptPending = FALSE
    /\ orphanScript = 0
    /\ reconciledOn = "none"

NextMarkers ==
    \/ \E feed \in MarkerFeeds : ResolveFetch("ok", feed)
    \/ ToggleFilters

SpecMarkers == InitMarkers /\ [][NextMarkers]_vars

----------------------------------------------------------------------------
(* C8 *)

\* The classification table, top row first
StyleTable ==
    <<[atLeast |-> 700, class |-> "Major", colour |-> "red", radius |-> 15],
      [atLeast |-> 500, class |-> "Moderate", colour |-> "orange", radius |-> 12],
      [atLeast |-> 300, class |-> "Light", colour |-> "yellow", radius |-> 9],
      [atLeast |-> 100, class |-> "Minor", colour |-> "blue", radius |-> 7]>>
StyleOtherwise ==
    [class |-> "Micro", colour |-> "green", radius |-> 5]

\* First matching row of the table
TableStyle(mag) ==
    LET hits == {k \in 1..Len(StyleTable) : mag >= StyleTable[k].atLeast}
    IN IF hits = {} THEN StyleOtherwise
       ELSE LET first == CHOOSE k \in hits : \A h \in hits : k <= h
            IN [class |-> StyleTable[first].class,
                colour |-> StyleTable[first].colour,
                radius |-> StyleTable[first].radius]

\* The colour a fillColor / a badge class stands for
ColourOfFill(hex) ==
    CASE hex = "#dc2626" -> "red"
      [] hex = "#f97316" -> "orange"
      [] hex = "#eab308" -> "yellow"
      [] hex = "#3b82f6" -> "blue"
      [] hex = "#22c55e" -> "green"
ColourOfBadge(css) ==
    CASE css = "bg-destructive" -> "red"
      [] css = "bg-orange-500" -> "orange"
      [] css = "bg-yellow-500" -> "yellow"
      [] css = "bg-blue-500" -> "blue"
      [] css = "bg-green-500" -> "green"

\* The magnitude of the filtered event a marker was made for
MagnitudeOfMarker(m) ==
    LET i == CHOOSE i \in 1..Len(filteredEarthquakes) :
                 filteredEarthquakes[i].id = m.popup
    IN filteredEarthquakes[i].mag

\* C8: every marker on the map and every entry of the significant-events
\* list is styled by the table read top-down with inclusive lower bounds
\* (>= 7 Major red 15, >= 5 Moderate orange 12, >= 3 Light yellow 9, >= 1
\* Minor blue 7, else Micro green 5), and among the markers of a layer the
\* radius never decreases as the magnitude increases.
C8_StyleFollowsTable ==
    ~crashed =>
        /\ \A k \in 1..Len(markers) :
              LET row == TableStyle(MagnitudeOfMarker(markers[k]))
              IN /\ markers[k].radius = row.radius
                 /\ ColourOfFill(markers[k].fillColor) = row.colour
        /\ \A k \in 1..Len(significantEarthquakes) :
              LET mag == significantEarthquakes[k].mag
              IN /\ getMagnitudeLabel(mag) = TableStyle(mag).class
                 /\ ColourOfBadge(getMagnitudeColor(mag)) = TableStyle(mag).colour
        /\ \A j, k \in 1..Len(markers) :
              MagnitudeOfMarker(markers[j]) <= MagnitudeOfMarker(markers[k])
                  => markers[j].radius <= markers[k].radius

\* Magnitude 7.0 next to 6.99 on the map: radius 15 and radius 12
C8_Witness ==
    /\ Len(markers) = 2
    /\ MagnitudeOfMarker(markers[1]) = 700 /\ markers[1].radius = 15
    /\ MagnitudeOfMarker(markers[2]) = 699 /\ markers[2].radius = 12
    /\ Len(significantEarthquakes) = 2

----------------------------------------------------------------------------
(* C9 *)

ClassOfColour(colour) ==
    CASE colour = "red" -> "Major"
      [] colour = "orange" -> "Moderate"
      [] colour = "yellow" -> "Light"
      [] colour = "blue" -> "Minor"
      [] colour = "green" -> "Micro"

MarkerIs(m, class, radius) ==
    ClassOfColour(ColourOfFill(m.fillColor)) = class /\ m.radius = radius

\* C9 as stated: 7.0 is Major/15, 6.99 Moderate/12, 5.0 Moderate/12, 2.9
\* Light/9 and 0.99 Micro/5.
C9_BoundaryCasesAsStated ==
    \A k \in 1..Len(markers) :
        LET mag == MagnitudeOfMarker(markers[k])
        IN /\ mag = 700 => MarkerIs(markers[k], "Major", 15)
           /\ mag = 699 => MarkerIs(markers[k], "Moderate", 12)
           /\ mag = 500 => MarkerIs(markers[k], "Moderate", 12)
           /\ mag = 290 => MarkerIs(markers[k], "Light", 9)
           /\ mag = 99 => MarkerIs(markers[k], "Micro", 5)

\* C9 amended: 7.0 is Major/15, 6.99 Moderate/12, 5.0 Moderate/12, 2.9
\* Minor/7 and 0.99 Micro/5.
C9_BoundaryCases ==
    \A k \in 1..Len(markers) :
        LET mag == MagnitudeOfMarker(markers[k])
        IN /\ mag = 700 => MarkerIs(markers[k], "Major", 15)
           /\ mag = 699 => MarkerIs(markers[k], "Moderate", 12)
           /\ mag = 500 => MarkerIs(markers[k], "Moderate", 12)
           /\ mag = 290 => MarkerIs(markers[k], "Minor", 7)
           /\ mag = 99 => MarkerIs(markers[k], "Micro", 5)

\* Magnitude 2.9 next to 0.99 on the map
C9_Witness ==
    /\ Len(markers) = 2
    /\ MagnitudeOfMarker(markers[1]) = 290 /\ markers[1].radius = 7
    /\ MagnitudeOfMarker(markers[2]) = 99 /\ markers[2].radius = 5

----------------------------------------------------------------------------
(* C10 *)

\* Positions of the filtered events with magnitude >= 2.5
SignificantPositions ==
    {i \in 1..Len(filteredEarthquakes) :
        /\ filteredEarthquakes[i].mag # MagNull
        /\ filteredEarthquakes[i].mag >= 250}

\* Place of position i in the order "magnitude descending, feed order among
\* equal magnitudes"
RankOf(i) ==
    1 + Cardinality({j \in SignificantPositions :
            \/ filteredEarthquakes[j].mag > filteredEarthquakes[i].mag
            \/ (filteredEarthquakes[j].mag = filteredEarthquakes[i].mag /\ j < i)})

\* C10: the significant list is the filtered events with magnitude >= 2.5,
\* by magnitude descending, equal magnitudes in feed order, cut to at most
\* 5; the filtered sequence itself stays the feed-ordered result of the
\* filter.
C10_TopSignificant ==
    ~crashed =>
        /\ Len(significantEarthquakes)
              = Min(5, Cardinality(SignificantPositions))
        /\ \A i \in SignificantPositions :
              RankOf(i) <= 5
                  => significantEarthquakes[RankOf(i)] = filteredEarthquakes[i]
        /\ IsSubsequenceAt(filteredEarthquakes, earthquakes,
              {i \in 1..Len(earthquakes) :
                  Satisfies(earthquakes[i], magnitudeFilter, timeFilter, filterNow)})

\* After the slider is set to 3.0 on the long feed, six significant events
\* with equal magnitudes among them remain: five are listed, the equal ones
\* in feed order
C10_Witness ==
    /\ earthquakes = LongFeed
    /\ magnitudeFilter = 300
    /\ Len(filteredEarthquakes) = 6
    /\ Len(significantEarthquakes) = 5
    /\ [k \in 1..5 |-> significantEarthquakes[k].id] = <<12, 16, 18, 11, 13>>

----------------------------------------------------------------------------
(* C11: the statistic cards *)

\* Math.max(...filteredEarthquakes.map((eq) => eq.properties.mag)) of a
\* non-empty list: every argument goes through ToNumber, so null counts as 0
RECURSIVE MaxMagnitude(_)
MaxMagnitude(eqs) ==
    IF Len(eqs) = 1 THEN JsNum(eqs[1].mag)
    ELSE LET m == MaxMagnitude(Tail(eqs))
             h == JsNum(eqs[1].mag)
         IN IF h >= m THEN h ELSE m

\* filteredEarthquakes.reduce((sum, eq) => sum + eq.properties.mag, 0):
\* number + null is the number
RECURSIVE SumMagnitude(_)
SumMagnitude(eqs) ==
    IF eqs = <<>> THEN 0 ELSE JsNum(eqs[1].mag) + SumMagnitude(Tail(eqs))

\* (num / den).toFixed(1) for num in hundredths and den > 0, as the set of
\* the tenths the card can show: the integer n for which n/10 is nearest to
\* the quotient.  When the quotient lies exactly half way between two tenths
\* the double that holds it lies a rounding error above or below the half
\* (4.05 is held as 4.04999..., 2.25 exactly), so either neighbour can show.
ToFixed1(num, den) ==
    LET unit == 10 * den
        base == num \div unit
        rest == num - base * unit
    IN IF 2 * rest < unit THEN {base}
       ELSE IF 2 * rest > unit THEN {base + 1}
       ELSE {base, base + 1}

StrongestCard_overAllEvents ==
    IF Len(earthquakes) > 0
    THEN ToFixed1(MaxMagnitude(earthquakes), 1)
    ELSE {0}

\* "Strongest Event" card, in tenths; "0.0" for an empty filtered list
StrongestCard ==
    IF Len(filteredEarthquakes) > 0
    THEN ToFixed1(MaxMagnitude(filteredEarthquakes), 1)
    ELSE {0}

\* "Average Magnitude" card, in tenths; "0.0" for an empty filtered list
AverageCard ==
    IF Len(filteredEarthquakes) > 0
    THEN ToFixed1(SumMagnitude(filteredEarthquakes), Len(filteredEarthquakes))
    ELSE {0}

\* The events of the held feed that pass both filters, by position, and the
\* aggregates the summary is to report over them
PassingPositions ==
    {i \in 1..Len(earthquakes) :
        Satisfies(earthquakes[i], magnitudeFilter, timeFilter, filterNow)}

RECURSIVE SumOver(_)
SumOver(P) ==
    IF P = {} THEN 0
    ELSE LET i == CHOOSE j \in P : TRUE
         IN JsNum(earthquakes[i].mag) + SumOver(P \ {i})

GreatestOver(P) ==
    CHOOSE m \in {JsNum(earthquakes[i].mag) : i \in P} :
        \A i \in P : JsNum(earthquakes[i].mag) <= m

Abs(x) == IF x < 0 THEN 0 - x ELSE x

\* C11 as stated: the cards show the size of the filtered set, the number of
\* its events of magnitude >= 2.5, its greatest magnitude and the quotient of
\* the sum of its magnitudes by its size, and 0.0 twice when it is empty.
C11_AggregatesExact ==
    LET P == PassingPositions
    IN /\ TotalCard = Cardinality(P)
       /\ SignificantCard =
              Cardinality({i \in P : JsGe(earthquakes[i].mag, SignificantThreshold)})
       /\ P = {} => StrongestCard = {0} /\ AverageCard = {0}
       /\ P # {} =>
              /\ \A d \in StrongestCard : 10 * d = GreatestOver(P)
              /\ \A d \in AverageCard : 10 * d * Cardinality(P) = SumOver(P)

\* C11: over the filtered set only, the cards show its size, the number of
\* its events of magnitude >= 2.5, and its greatest magnitude and its mean
\* magnitude each rounded to one decimal place (a null magnitude counting as
\* 0), and 0.0 twice when it is empty.
C11_AggregatesRounded ==
    LET P == PassingPositions
        n == Cardinality(P)
    IN /\ TotalCard = n
       /\ SignificantCard =
              Cardinality({i \in P : JsGe(earthquakes[i].mag, SignificantThreshold)})
       /\ P = {} => StrongestCard = {0} /\ AverageCard = {0}
       /\ P # {} =>
              /\ StrongestCard # {} /\ AverageCard # {}
              /\ \A d \in StrongestCard : Abs(10 * d - GreatestOver(P)) <= 5
              /\ \A d \in AverageCard : Abs(10 * d * n - SumOver(P)) <= 5 * n

\* A one-hour window has dropped the 8.1 event of three: two events of 2.5
\* remain and the cards show 2, 2, 2.5 and 2.5
C11_Witness ==
    /\ earthquakes = <<f1, f2, f4>>
    /\ timeFilter = "1h"
    /\ Len(filteredEarthquakes) = 2
    /\ TotalCard = 2 /\ SignificantCard = 2
    /\ StrongestCard = {25} /\ AverageCard = {25}

----------------------------------------------------------------------------
(* C12: retry affordances *)

\* The two buttons that start a new attempt: Refresh in the header and Try
\* Again in the feed error panel.  The mapError panel of part_001 (lines
\* 159-168) renders an icon and two paragraphs and no control.
UserRetry == \E initOk \in BOOLEAN : Refresh(initOk) \/ TryAgain(initOk)

\* C12: no error is fatal, and in every state that shows a feed error or a
\* marker-layer error a user-triggered retry is enabled that leads to a state
\* without that error.
C12_EveryErrorHasRetry ==
    /\ ~crashed
    /\ (Live /\ error # Null) => ENABLED (UserRetry /\ error' = Null)
    /\ (Live /\ mapMounted /\ mapError # Null) =>
           ENABLED (UserRetry /\ mapError' = Null)

----------------------------------------------------------------------------
(* C13: filter changes while a fetch is pending *)

\* The marker layer shows the current filtered set
MarkersShowFiltered ==
    /\ Len(markers) = Cardinality(ProjectedPositions)
    /\ \A i \in ProjectedPositions :
          markers[Cardinality({j \in ProjectedPositions : j <= i})]
              = CircleMarker(filteredEarthquakes[i])

\* A click on the slider or the select while loading is true
FilterChangeWhileLoading ==
    /\ Live /\ loading /\ loading'
    /\ magnitudeFilter' # magnitudeFilter \/ timeFilter' # timeFilter

\* C13: while a fetch is pending the list of the last completed fetch stays
\* on display, and a change of the minimum magnitude or of the time window
\* made meanwhile recomputes the filtered set, the cards, the list and the
\* markers from the held events at once.
C13_RecomputedWhileLoading ==
    /\ [](Live /\ loading => ListPanel = significantEarthquakes)
    /\ [][FilterChangeWhileLoading =>
            /\ filteredEarthquakes' =
                   FilterEvents(earthquakes, magnitudeFilter', timeFilter', clock)
            /\ TotalCard' = Len(filteredEarthquakes')
            /\ ListPanel' = ComputeSignificant(filteredEarthquakes')
            /\ (MapReady /\ MapReady') => MarkersShowFiltered']_vars

----------------------------------------------------------------------------
(* C14: the marker layer is touched on a ready map only *)

\* C14: every clearLayers/addLayer pass of the marker effect runs on the
\* layer group of a live map of a loaded library: never before the library
\* is loaded and the map and its layer group exist, and never on the layer
\* group of a map that the cleanup of the initialisation effect has removed,
\* a feed error that unmounts the map component and a later remount included.
C14_MarkersOnReadyMapOnly ==
    /\ reconciledOn \in {"none", "ready"}
    /\ markers # <<>> =>
           /\ mapMounted /\ leafletLoaded /\ windowL
           /\ markersRef # Null
           /\ reconciledOn = "ready"
    /\ markersRef = "detached" => mapInstance = Null

\* The first markers of a run are added to the map of a second
\* EarthquakeMap instance: the first instance was unmounted by a feed error
\* while its <script> was pending (that script has not fired yet)
C14_Witness ==
    /\ orphanScript > 0
    /\ MapReady /\ Settled
    /\ reconciledOn = "ready"
    /\ Len(markers) > 0

----------------------------------------------------------------------------
(* C15: every fetch leaves the loading state *)

\* The browser runs the mount effect of a mounted component, and a fetch()
\* promise settles: the response arrives or the network stack gives up
SpecLive ==
    /\ Spec
    /\ WF_vars(MountEffect)
    /\ WF_vars(\E outcome \in Outcomes :
                   \E feed \in BodiesOf(outcome) : ResolveFetch(outcome, feed))

\* The most recent fetch has settled and none has been started since
Resolved == lastOutcome \notin {"unmounted", "none"}

\* The Refresh button is rendered and not disabled: the component tree is
\* mounted and `disabled={loading}` is false (the guard of Refresh)
RefreshEnabled == Live /\ ~loading

\* C15: a started fetch eventually leaves the loading state; once it has
\* resolved, loading is false and Refresh is enabled again, error is null
\* after a success and non-null after a failure; and error is null as long
\* as a fetch is in flight.
C15_FetchLeavesLoading ==
    /\ [](inflight > 0 => error = Null)
    /\ [](Resolved => ~loading /\ RefreshEnabled)
    /\ [](lastOutcome \in {"ok", "nofeatures"} => error = Null)
    /\ [](lastOutcome \in FailureOutcomes => error # Null)
    /\ (inflight > 0) ~> (inflight = 0 /\ ~loading /\ RefreshEnabled)

====
